---- MODULE Spec2Model ----
(***************************************************************************)
(* Identity reconciliation of the bitespeed contact service.               *)
(*                                                                         *)
(* The state is the Contact table (contact.entity.ts) and the observable   *)
(* result of the last requests; the operation is ContactService.identify   *)
(* (contact.service.ts), translated statement by statement.  One identify  *)
(* call is one step: requests are served one after the other, and every    *)
(* insert gets a createdAt later than all earlier ones.                    *)
(***************************************************************************)
EXTENDS Naturals, Integers, Sequences, FiniteSets, TLC

\* ------------------------------------------------------------------ bounds
MaxContacts == 4
NumEmails == 2
NumPhones == 2
\* inputs of a direct call of consolidateContacts: length of allContacts and
\* number of distinct emails (phone numbers)
MaxList == 3
NumValues == 3
\* size of the table when two inserts may fall into one clock instant
MaxTieContacts == 2
\* size of the table when a save of the merge may fail
MaxFailContacts == 3
\* interleaved calls: how many run at once, how many each client makes, and
\* the size of the table
NumProcs == 2
MaxCallsEach == 2
MaxConcContacts == 3

\* ------------------------------------------------------------ value spaces
\* undefined / NULL of an optional column or request field
Null == 0

Emails == 1..NumEmails
Phones == 1..NumPhones

\* IdentifyRequestDto: both fields optional
IdentifyRequestDto == [email : Emails \cup {Null}, phoneNumber : Phones \cup {Null}]

\* the request slot before any call was made
NoRequest == [email |-> Null - 1, phoneNumber |-> Null - 1]

\* IdentifyResponseDto, with the outcome of the call in front
Response(status, primaryId, emails, phoneNumbers, secondaryIds) ==
    [status |-> status, primaryContatctId |-> primaryId, emails |-> emails,
     phoneNumbers |-> phoneNumbers, secondaryContactIds |-> secondaryIds]

NoResponse == Response("none", Null, <<>>, <<>>, <<>>)

\* ------------------------------------------------------------------ state
VARIABLES
    store,      \* the Contact table: store[i] is the row with id i
    now,        \* the database clock (CURRENT_TIMESTAMP of the next insert)
    req,        \* the last request served
    resp,       \* its response
    pre,        \* the table as it was before the last request
    repeated,   \* TRUE iff the last request equals the one served just before it
    args,       \* the arguments of a direct call of a pure method
    calls       \* the identify calls in progress, when calls are interleaved

vars == <<store, now, req, resp, pre, repeated, args, calls>>

\* no direct call of a pure method, no call in progress
NoArgs == <<>>
NoCalls == <<>>

\* ----------------------------------------------------------------- entity
\* a row of the Contact table
Contact(id, email, phoneNumber, linkedId, linkPrecedence, createdAt, updatedAt) ==
    [id |-> id, email |-> email, phoneNumber |-> phoneNumber,
     linkedId |-> linkedId, linkPrecedence |-> linkPrecedence,
     createdAt |-> createdAt, updatedAt |-> updatedAt, deletedAt |-> Null]

\* updatedAt after `updatedAt: new Date()`: the application clock is read by
\* nothing, so the model keeps that the row was refreshed, not when
Refreshed == -1

\* the rows of a table as a set
Rows(st) == {st[i] : i \in 1..Len(st)}

\* ORDER BY createdAt ASC: every sequence of the rows of S in which createdAt
\* never decreases (rows with equal createdAt come in an unspecified order)
RECURSIVE OrderByCreatedAt(_)
OrderByCreatedAt(S) ==
    IF S = {} THEN {<<>>}
    ELSE LET firsts == {c \in S : \A d \in S : c.createdAt <= d.createdAt}
         IN  UNION {{<<c>> \o t : t \in OrderByCreatedAt(S \ {c})} : c \in firsts}

\* ---------------------------------------------------------------- queries
\* a NULL parameter compares equal to nothing
findContactsByEmailOrPhone(st, email, phoneNumber) ==
    OrderByCreatedAt({c \in Rows(st) :
        /\ \/ (email # Null /\ c.email = email)
           \/ (phoneNumber # Null /\ c.phoneNumber = phoneNumber)
        /\ c.deletedAt = Null})

findOtherPrimaryContacts(st, email, phoneNumber, id) ==
    {c \in Rows(st) :
        /\ \/ (email # Null /\ c.email = email)
           \/ (phoneNumber # Null /\ c.phoneNumber = phoneNumber)
        /\ c.linkPrecedence = "primary"
        /\ c.id # id
        /\ c.deletedAt = Null}

findAllRelatedContacts(st, primaryId) ==
    OrderByCreatedAt({c \in Rows(st) :
        /\ (c.id = primaryId \/ c.linkedId = primaryId)
        /\ c.deletedAt = Null})

\* repository.create: an entity without id and without the column defaults
create(email, phoneNumber, linkedId, linkPrecedence) ==
    Contact(Null, email, phoneNumber, linkedId, linkPrecedence, Null, Null)

\* repository.save: insert when the entity has no id (the table assigns the
\* next id and the CURRENT_TIMESTAMP defaults), else write the row with that id
saveContact(st, contact, t) ==
    IF contact.id = Null
    THEN Append(st, [contact EXCEPT !.id = Len(st) + 1,
                                    !.createdAt = t, !.updatedAt = t])
    ELSE [st EXCEPT ![contact.id] = contact]

\* ----------------------------------------------------------- pure helpers
\* contacts.some((c) => c.<field> === value)
SomeEmail(contacts, email) == \E i \in 1..Len(contacts) : contacts[i].email = email

SomePhone(contacts, phoneNumber) ==
    \E i \in 1..Len(contacts) : contacts[i].phoneNumber = phoneNumber

\* hasNewInfo with the two negations lost: a value counts as new when some
\* matched contact already holds it
hasNewInfoUnnegated(contacts, email, phoneNumber) ==
    \/ (email # Null /\ SomeEmail(contacts, email))
    \/ (phoneNumber # Null /\ SomePhone(contacts, phoneNumber))

hasNewInfo(contacts, email, phoneNumber) ==
    \/ (email # Null /\ ~SomeEmail(contacts, email))
    \/ (phoneNumber # Null /\ ~SomePhone(contacts, phoneNumber))

\* contacts.reduce((earliest, current) =>
\*     earliest.createdAt < current.createdAt ? earliest : current)
\* over the first n elements of a non-empty array
RECURSIVE EarliestOf(_, _)
EarliestOf(contacts, n) ==
    IF n = 1 THEN contacts[1]
    ELSE LET earliest == EarliestOf(contacts, n - 1)
             current == contacts[n]
         IN  IF earliest.createdAt < current.createdAt THEN earliest ELSE current

Earliest(contacts) == EarliestOf(contacts, Len(contacts))

\* contacts.find((c) => c.linkPrecedence === 'primary'): index of the first, or 0
FirstPrimaryIndex(contacts) ==
    LET I == {i \in 1..Len(contacts) : contacts[i].linkPrecedence = "primary"}
    IN  IF I = {} THEN 0 ELSE CHOOSE i \in I : \A j \in I : i <= j

determinePrimaryContact(contacts) ==
    LET i == FirstPrimaryIndex(contacts)
    IN  IF i # 0 THEN contacts[i]
        ELSE [Earliest(contacts) EXCEPT !.linkPrecedence = "primary"]

\* Distinct without .filter(Boolean): an absent value is kept as an element
RECURSIVE DistinctKeepingEmpty(_)
DistinctKeepingEmpty(values) ==
    IF values = <<>> THEN <<>>
    ELSE LET front == DistinctKeepingEmpty(SubSeq(values, 1, Len(values) - 1))
             last == values[Len(values)]
         IN  IF \E i \in 1..Len(front) : front[i] = last
             THEN front ELSE Append(front, last)

\* Array.from(new Set(values.filter(Boolean))): the non-empty values, each kept
\* at its first occurrence
RECURSIVE Distinct(_)
Distinct(values) ==
    IF values = <<>> THEN <<>>
    ELSE LET front == Distinct(SubSeq(values, 1, Len(values) - 1))
             last == values[Len(values)]
         IN  IF last = Null \/ \E i \in 1..Len(front) : front[i] = last
             THEN front ELSE Append(front, last)

\* MoveToFront without the splice: v is put in front and stays where it was
MoveToFrontUnspliced(list, v) ==
    IF v # Null /\ \E i \in 1..Len(list) : list[i] = v
    THEN <<v>> \o list
    ELSE list

\* if (v && list.includes(v)) { list.splice(list.indexOf(v), 1); list.unshift(v) }
MoveToFront(list, v) ==
    IF v # Null /\ \E i \in 1..Len(list) : list[i] = v
    THEN <<v>> \o SelectSeq(list, LAMBDA x : x # v)
    ELSE list

consolidateContacts(allContacts, primaryContact) ==
    LET emails == Distinct([i \in 1..Len(allContacts) |-> allContacts[i].email])
        phoneNumbers ==
            Distinct([i \in 1..Len(allContacts) |-> allContacts[i].phoneNumber])
        secondaries == SelectSeq(allContacts, LAMBDA c : c.linkPrecedence = "secondary")
        secondaryContactIds == [i \in 1..Len(secondaries) |-> secondaries[i].id]
    IN  Response("ok", primaryContact.id,
                 MoveToFront(emails, primaryContact.email),
                 MoveToFront(phoneNumbers, primaryContact.phoneNumber),
                 secondaryContactIds)

\* reassignPrimaryContacts without the spread `...c`: the written row carries
\* only the id and the three assigned fields
reassignWithoutSpread(otherPrimaryContacts, earliestPrimary) ==
    {Contact(c.id, Null, Null, earliestPrimary.id, "secondary", Null, Refreshed) :
        c \in {d \in otherPrimaryContacts : d.id # earliestPrimary.id}}

\* the rows to write back: every other primary but earliestPrimary, demoted
reassignPrimaryContacts(otherPrimaryContacts, earliestPrimary) ==
    {[c EXCEPT !.linkPrecedence = "secondary",
               !.linkedId = earliestPrimary.id,
               !.updatedAt = Refreshed] :
        c \in {d \in otherPrimaryContacts : d.id # earliestPrimary.id}}

\* Promise.all(contactsToUpdate.map(saveContact)): the rows have distinct ids
RECURSIVE saveAll(_, _, _)
saveAll(st, contactsToUpdate, t) ==
    IF contactsToUpdate = {} THEN st
    ELSE LET c == CHOOSE x \in contactsToUpdate : TRUE
         IN  saveAll(saveContact(st, c, t), contactsToUpdate \ {c}, t)

\* --------------------------------------------------------------- identify
\* The body of ContactService.identify for a request that passed the input
\* check, on table st at time t: the set of possible outcomes, each the table
\* after all writes and the response returned.
IdentifyOutcomes(st, t, email, phoneNumber) ==
    UNION {
        IF contacts = <<>>
        THEN \* no contacts found: create the primary
             LET newContact == create(email, phoneNumber, Null, "primary")
                 s1 == saveContact(st, newContact, t)
                 savedContact == s1[Len(s1)]
             IN  {[store |-> s1,
                   resp |-> consolidateContacts(<<savedContact>>, savedContact)]}
        ELSE LET primaryContact == determinePrimaryContact(contacts)
                 \* "Assigning ... as primary contact"
                 s1 == IF primaryContact.linkPrecedence # contacts[1].linkPrecedence
                       THEN saveContact(st, primaryContact, t)
                       ELSE st
                 \* create new secondary contact if needed
                 newInfo == hasNewInfo(contacts, email, phoneNumber)
                 s2 == IF newInfo
                       THEN saveContact(s1, create(email, phoneNumber,
                                                   primaryContact.id, "secondary"), t)
                       ELSE s1
                 contacts2 == IF newInfo THEN Append(contacts, s2[Len(s2)])
                              ELSE contacts
                 \* handle other primary contacts
                 otherPrimaryContacts ==
                     findOtherPrimaryContacts(s2, email, phoneNumber, primaryContact.id)
                 s3 == IF otherPrimaryContacts # {}
                       THEN saveAll(s2,
                                reassignPrimaryContacts(otherPrimaryContacts,
                                                        Earliest(contacts2)), t)
                       ELSE s2
             IN  {[store |-> s3,
                   resp |-> consolidateContacts(allContacts, primaryContact)] :
                     allContacts \in findAllRelatedContacts(s3, primaryContact.id)}
        : contacts \in findContactsByEmailOrPhone(st, email, phoneNumber)}

\* what the history variables record of a served request
Record(request, response) ==
    /\ req' = request
    /\ resp' = response
    /\ pre' = store
    /\ repeated' = (request = req)
    /\ UNCHANGED <<args, calls>>

\* identify({email, phoneNumber}) with at least one of the two present
Identify(email, phoneNumber) ==
    /\ ~(email = Null /\ phoneNumber = Null)
    /\ \E o \in IdentifyOutcomes(store, now, email, phoneNumber) :
          /\ Len(o.store) <= MaxContacts
          /\ store' = o.store
          /\ now' = IF Len(o.store) > Len(store) THEN now + 1 ELSE now
          /\ Record([email |-> email, phoneNumber |-> phoneNumber], o.resp)

\* identify({}) without the input check: the queries run with NULL parameters
IdentifyInvalidUnchecked ==
    \E o \in IdentifyOutcomes(store, now, Null, Null) :
        /\ Len(o.store) <= MaxContacts
        /\ store' = o.store
        /\ now' = IF Len(o.store) > Len(store) THEN now + 1 ELSE now
        /\ Record([email |-> Null, phoneNumber |-> Null], o.resp)

\* identify({}) : BadRequestException before any query
IdentifyInvalid ==
    /\ UNCHANGED <<store, now>>
    /\ Record([email |-> Null, phoneNumber |-> Null],
              Response("BadRequestException", Null, <<>>, <<>>, <<>>))

Init ==
    /\ store = <<>>
    /\ now = 1
    /\ req = NoRequest
    /\ resp = NoResponse
    /\ pre = <<>>
    /\ repeated = FALSE
    /\ args = NoArgs
    /\ calls = NoCalls

Next ==
    \/ \E r \in IdentifyRequestDto : Identify(r.email, r.phoneNumber)
    \/ IdentifyInvalid

Spec == Init /\ [][Next]_vars

\* ------------------------------------------------- vocabulary of the claims
Ids(st) == 1..Len(st)

IsPrimary(c) == c.linkPrecedence = "primary"

IsSecondary(c) == c.linkPrecedence = "secondary"

\* the last step was a successful identify call
Served == resp.status = "ok"

\* ids of the rows of st that the request's email or phone selects
Matched(st, request) ==
    {i \in Ids(st) :
        \/ (request.email # Null /\ st[i].email = request.email)
        \/ (request.phoneNumber # Null /\ st[i].phoneNumber = request.phoneNumber)}

MatchedPrimaries(st, request) == {i \in Matched(st, request) : IsPrimary(st[i])}

\* the cluster of primary k: k and every contact whose linkedId is k
Cluster(st, k) == {k} \cup {i \in Ids(st) : st[i].linkedId = k}

\* the id with the earliest createdAt in a non-empty set of ids
EarliestId(st, I) == CHOOSE i \in I : \A j \in I : st[i].createdAt <= st[j].createdAt

\* the table is a forest of flat stars: primaries carry no link, secondaries
\* point at a primary
Flat(st) ==
    \A i \in Ids(st) :
        IF IsPrimary(st[i]) THEN st[i].linkedId = Null
        ELSE st[i].linkedId \in Ids(st) /\ IsPrimary(st[st[i].linkedId])

\* ------------------------------------------------------------------ claims

\* C1: when identify matches two or more primaries, every matched primary but
\* the earliest-created one ends secondary and linked to that earliest primary,
\* and the response names that earliest primary.
C1_MergeUnderEarliestPrimary ==
    (Served /\ Cardinality(MatchedPrimaries(pre, req)) >= 2) =>
        LET P == MatchedPrimaries(pre, req)
            a == EarliestId(pre, P)
        IN  /\ \A b \in P \ {a} :
                  IsSecondary(store[b]) /\ store[b].linkedId = a
            /\ resp.primaryContatctId = a

\* C2: when a call demotes primary B under A, every contact that was linked to
\* B is linked to A afterwards and none is left pointing at B.
C2_SecondariesFollowDemotedPrimary ==
    Served =>
        \A b \in Ids(pre) :
            (IsPrimary(pre[b]) /\ IsSecondary(store[b])) =>
                /\ \A c \in Ids(pre) :
                      pre[c].linkedId = b => store[c].linkedId = store[b].linkedId
                /\ \A c \in Ids(store) : store[c].linkedId # b

\* C3: when the email is held in one cluster and the phone in another, all
\* contacts of both clusters end in one cluster that has exactly one primary.
C3_BridgedClustersBecomeOne ==
    (Served /\ Flat(pre)) =>
        \A k1, k2 \in {k \in Ids(pre) : IsPrimary(pre[k])} :
            (/\ k1 # k2
             /\ \E x \in Cluster(pre, k1) : req.email # Null /\ pre[x].email = req.email
             /\ \E y \in Cluster(pre, k2) :
                   req.phoneNumber # Null /\ pre[y].phoneNumber = req.phoneNumber)
            => \E k \in Ids(store) :
                  /\ IsPrimary(store[k])
                  /\ (Cluster(pre, k1) \cup Cluster(pre, k2)) \subseteq Cluster(store, k)
                  /\ \A i \in Cluster(store, k) : IsPrimary(store[i]) => i = k

\* C4: every secondary's linkedId is the id of a primary contact.
C4_SecondaryLinksToPrimary ==
    Served =>
        \A i \in Ids(store) :
            IsSecondary(store[i]) =>
                /\ store[i].linkedId \in Ids(store)
                /\ IsPrimary(store[store[i].linkedId])
                /\ store[store[i].linkedId].deletedAt = Null

\* C5: a contact has a linkedId if and only if it is secondary.
C5_LinkedIffSecondary ==
    Served =>
        \A i \in Ids(store) : (store[i].linkedId # Null) <=> IsSecondary(store[i])

\* C6: every cluster holds exactly one primary, the earliest-created contact
\* of the cluster.
C6_OnePrimaryPerClusterEarliest ==
    Served =>
        \A k \in Ids(store) :
            IsPrimary(store[k]) =>
                \A i \in Cluster(store, k) :
                    /\ IsPrimary(store[i]) => i = k
                    /\ store[k].createdAt <= store[i].createdAt

\* C7: a contact that is secondary is still secondary after any identify call.
C7_SecondaryNeverPromoted ==
    \A i \in Ids(pre) : IsSecondary(pre[i]) => IsSecondary(store[i])

\* the elements of a sequence
Range(seq) == {seq[i] : i \in 1..Len(seq)}

\* C8: the same request served twice in a row gets the same response twice,
\* and the second call inserts no contact.
C8_RepeatedRequestIsStable ==
    [][(Served /\ req' = req) => (resp' = resp /\ Len(store') = Len(store))]_vars

\* C8 witness: a request was served twice in a row on a cluster that has
\* secondary contacts.
C8_Witness ==
    /\ Served
    /\ repeated
    /\ req.email # Null /\ req.phoneNumber # Null
    /\ resp.secondaryContactIds # <<>>

\* C9: a request whose email and phone are already held by contacts of the
\* cluster of the previous response, answered for that same cluster, does not
\* return more secondaryContactIds than that previous response.
C9_KnownAttributesDoNotGrowSecondaries ==
    [][(/\ Served
        /\ Served'
        /\ resp'.primaryContatctId = resp.primaryContatctId
        /\ req'.email # Null =>
              \E x \in Cluster(store, resp.primaryContatctId) :
                  store[x].email = req'.email
        /\ req'.phoneNumber # Null =>
              \E y \in Cluster(store, resp.primaryContatctId) :
                  store[y].phoneNumber = req'.phoneNumber)
       => Len(resp'.secondaryContactIds) <= Len(resp.secondaryContactIds)]_vars

\* C10: with a primary holding the request's email and a phone no contact
\* holds, the call inserts exactly one contact, secondary and linked to that
\* primary, and the response lists the phone; no call inserts more than one.
C10_NewPhoneAddsOneSecondary ==
    Served =>
        /\ Len(store) <= Len(pre) + 1
        /\ \A k \in Ids(pre) :
              (/\ IsPrimary(pre[k])
               /\ req.email # Null /\ pre[k].email = req.email
               /\ req.phoneNumber # Null
               /\ \A i \in Ids(pre) : pre[i].phoneNumber # req.phoneNumber)
              => /\ Len(store) = Len(pre) + 1
                 /\ IsSecondary(store[Len(store)])
                 /\ store[Len(store)].linkedId = k
                 /\ store[Len(store)].email = req.email
                 /\ store[Len(store)].phoneNumber = req.phoneNumber
                 /\ req.phoneNumber \in Range(resp.phoneNumbers)

\* C15: a request that matches no contact inserts exactly one contact, primary
\* and without linkedId, and the response has no secondaryContactIds and
\* exactly the supplied email and phone.
C15_NoMatchCreatesPrimary ==
    (Served /\ Matched(pre, req) = {}) =>
        /\ Len(store) = Len(pre) + 1
        /\ IsPrimary(store[Len(store)])
        /\ store[Len(store)].linkedId = Null
        /\ store[Len(store)].email = req.email
        /\ store[Len(store)].phoneNumber = req.phoneNumber
        /\ resp.secondaryContactIds = <<>>
        /\ resp.emails = (IF req.email = Null THEN <<>> ELSE <<req.email>>)
        /\ resp.phoneNumbers =
               (IF req.phoneNumber = Null THEN <<>> ELSE <<req.phoneNumber>>)

\* C15 witness: a request with only an email matched nothing in a table that
\* already held contacts.
C15_Witness ==
    /\ Served
    /\ Matched(pre, req) = {}
    /\ Len(pre) >= 1
    /\ req.phoneNumber = Null

\* C16: a request with neither email nor phone ends with BadRequestException
\* and leaves the table as it was.
C16_InvalidInputRejected ==
    (req.email = Null /\ req.phoneNumber = Null) =>
        (resp.status = "BadRequestException" /\ store = pre)

\* C16 witness: an empty request was rejected on a table that holds contacts.
C16_Witness ==
    /\ req.email = Null /\ req.phoneNumber = Null
    /\ resp.status = "BadRequestException"
    /\ Len(store) >= 2

\* C17: no call removes a contact or changes the id, email, phoneNumber or
\* createdAt of a contact that already exists.
C17_ExistingContactsKeepIdentity ==
    \A i \in Ids(pre) :
        /\ i \in Ids(store)
        /\ store[i].id = pre[i].id
        /\ store[i].email = pre[i].email
        /\ store[i].phoneNumber = pre[i].phoneNumber
        /\ store[i].createdAt = pre[i].createdAt

\* C17 witness: a call demoted an existing primary (its linkPrecedence,
\* linkedId and updatedAt changed).
C17_Witness ==
    /\ Served
    /\ \E i \in Ids(pre) :
          /\ IsPrimary(pre[i]) /\ IsSecondary(store[i])
          /\ store[i].linkedId # pre[i].linkedId
          /\ store[i].updatedAt # pre[i].updatedAt

\* C20: the response's emails contain the supplied email and its phoneNumbers
\* the supplied phone.
C20_ResponseContainsRequest ==
    Served =>
        /\ req.email # Null => req.email \in Range(resp.emails)
        /\ req.phoneNumber # Null => req.phoneNumber \in Range(resp.phoneNumbers)

\* ------------------------------------------- consolidateContacts on its own
\* The arguments of consolidateContacts(allContacts, primaryContact): a list in
\* createdAt order of contacts with distinct ids, each with an email or a phone,
\* one of them (at any position) the primary and the others linked to it.
ConsolidateInputs ==
    LET held == {v \in (0..NumValues) \X (0..NumValues) :
                    ~(v[1] = Null /\ v[2] = Null)}
    IN  UNION {
            {[allContacts |->
                 [i \in 1..n |->
                     Contact(i, h[i][1], h[i][2],
                             IF i = p THEN Null ELSE p,
                             IF i = p THEN "primary" ELSE "secondary", i, i)],
              primary |-> p] :
                h \in [1..n -> held], p \in 1..n}
            : n \in 1..MaxList}

\* return this.consolidateContacts(allContacts, primaryContact)
Consolidate ==
    /\ resp = NoResponse
    /\ resp' = consolidateContacts(args.allContacts, args.allContacts[args.primary])
    /\ UNCHANGED <<store, now, req, pre, repeated, args, calls>>

InitConsolidate ==
    /\ store = <<>>
    /\ now = 1
    /\ req = NoRequest
    /\ resp = NoResponse
    /\ pre = <<>>
    /\ repeated = FALSE
    /\ args \in ConsolidateInputs
    /\ calls = NoCalls

NextConsolidate == Consolidate

SpecConsolidate == InitConsolidate /\ [][NextConsolidate]_vars

\* index of the first element of values that equals v
FirstAt(values, v) ==
    CHOOSE i \in 1..Len(values) :
        values[i] = v /\ \A j \in 1..(i - 1) : values[j] # v

\* out lists the distinct non-empty elements of values, own first when it is
\* one of them, the others in the order of their first occurrence in values
PrimaryFirstThenFirstSeen(out, values, own) ==
    /\ Range(out) = Range(values) \ {Null}
    /\ \A i, j \in 1..Len(out) : i # j => out[i] # out[j]
    /\ (own # Null) => (out # <<>> /\ out[1] = own)
    /\ \A i, j \in 1..Len(out) :
          (i < j /\ out[i] # own /\ out[j] # own)
              => FirstAt(values, out[i]) < FirstAt(values, out[j])

\* C14: consolidateContacts returns the distinct non-empty emails (phone
\* numbers) of the list, the primary's own first when it has one, the others in
\* the order of their first appearance in the createdAt-ascending list.
C14_PrimaryValueFirstOthersInOrder ==
    resp.status = "ok" =>
        LET all == args.allContacts
            own == all[args.primary]
        IN  /\ PrimaryFirstThenFirstSeen(resp.emails,
                   [i \in 1..Len(all) |-> all[i].email], own.email)
            /\ PrimaryFirstThenFirstSeen(resp.phoneNumbers,
                   [i \in 1..Len(all) |-> all[i].phoneNumber], own.phoneNumber)

\* C14 witness: the primary is the youngest of three contacts, the two older
\* ones hold two other emails, and the response lists all three emails.
C14_Witness ==
    /\ resp.status = "ok"
    /\ Len(args.allContacts) = 3
    /\ args.primary = 3
    /\ Len(resp.emails) = 3
    /\ resp.emails[1] = args.allContacts[3].email
    /\ resp.emails[2] = args.allContacts[1].email

\* ------------------------------------------------- identical createdAt
\* identify when the clock's resolution lets an insert share its createdAt with
\* the next one: tick is 0 when the clock has not advanced after the insert
IdentifyUpTo(email, phoneNumber, tick, maxContacts) ==
    /\ ~(email = Null /\ phoneNumber = Null)
    /\ \E o \in IdentifyOutcomes(store, now, email, phoneNumber) :
          /\ Len(o.store) <= maxContacts
          /\ store' = o.store
          /\ now' = IF Len(o.store) > Len(store) THEN now + tick ELSE now
          /\ Record([email |-> email, phoneNumber |-> phoneNumber], o.resp)

IdentifySameInstant(email, phoneNumber, tick) ==
    IdentifyUpTo(email, phoneNumber, tick, MaxTieContacts)

NextTies ==
    \/ \E r \in IdentifyRequestDto, tick \in {0, 1} :
          IdentifySameInstant(r.email, r.phoneNumber, tick)
    \/ IdentifyInvalid

SpecTies == Init /\ [][NextTies]_vars

\* C11: a call that matches exactly two primaries with equal createdAt leaves
\* exactly one of the two primary, the other secondary and linked to it, and
\* answers with the one that stayed primary.
C11_TieDemotesExactlyOne ==
    Served =>
        \A a, b \in MatchedPrimaries(pre, req) :
            (/\ a # b
             /\ MatchedPrimaries(pre, req) = {a, b}
             /\ pre[a].createdAt = pre[b].createdAt)
            => \E k \in {a, b} :
                  /\ IsPrimary(store[k])
                  /\ \A i \in {a, b} \ {k} :
                        IsSecondary(store[i]) /\ store[i].linkedId = k
                  /\ resp.primaryContatctId = k

\* ------------------------------------------------------- a failing save
\* The body of identify when saves of Promise.all(contactsToUpdate.map(...))
\* are rejected: every save of the array has been started by map, the saves in
\* failed are rejected and the others are written; the catch block turns the
\* rejection into InternalServerErrorException.
MergeFailureOutcomes(st, t, email, phoneNumber) ==
    UNION {
        IF contacts = <<>> THEN {}
        ELSE LET primaryContact == determinePrimaryContact(contacts)
                 s1 == IF primaryContact.linkPrecedence # contacts[1].linkPrecedence
                       THEN saveContact(st, primaryContact, t)
                       ELSE st
                 newInfo == hasNewInfo(contacts, email, phoneNumber)
                 s2 == IF newInfo
                       THEN saveContact(s1, create(email, phoneNumber,
                                                   primaryContact.id, "secondary"), t)
                       ELSE s1
                 contacts2 == IF newInfo THEN Append(contacts, s2[Len(s2)])
                              ELSE contacts
                 otherPrimaryContacts ==
                     findOtherPrimaryContacts(s2, email, phoneNumber, primaryContact.id)
                 contactsToUpdate ==
                     reassignPrimaryContacts(otherPrimaryContacts, Earliest(contacts2))
             IN  {[store |-> saveAll(s2, contactsToUpdate \ failed, t),
                   resp |-> Response("InternalServerErrorException",
                                     Null, <<>>, <<>>, <<>>)] :
                     failed \in (SUBSET contactsToUpdate) \ {{}}}
        : contacts \in findContactsByEmailOrPhone(st, email, phoneNumber)}

\* identify with a rejected save in the merge
IdentifyMergeFails(email, phoneNumber) ==
    /\ ~(email = Null /\ phoneNumber = Null)
    /\ \E o \in MergeFailureOutcomes(store, now, email, phoneNumber) :
          /\ Len(o.store) <= MaxFailContacts
          /\ store' = o.store
          /\ now' = IF Len(o.store) > Len(store) THEN now + 1 ELSE now
          /\ Record([email |-> email, phoneNumber |-> phoneNumber], o.resp)

NextFail ==
    \/ \E r \in IdentifyRequestDto :
          IdentifyUpTo(r.email, r.phoneNumber, 1, MaxFailContacts)
    \/ \E r \in IdentifyRequestDto : IdentifyMergeFails(r.email, r.phoneNumber)
    \/ IdentifyInvalid

SpecFail == Init /\ [][NextFail]_vars

\* C19: a call that ends with a storage failure in its merge has demoted no
\* contact.
C19_FailedMergeDemotesNothing ==
    resp.status = "InternalServerErrorException" =>
        \A i \in Ids(pre) : IsPrimary(pre[i]) => IsPrimary(store[i])

\* ------------------------------------------------------ interleaved calls
\* identify is async: between two awaits of one call the awaits of another may
\* run.  Each query and each save is one step; the code between two awaits
\* runs with the step that precedes it.
Procs == 1..NumProcs

NoContact == Contact(Null, Null, Null, Null, "none", Null, Null)

\* the locals of one call: pc names the await the call stands at, n counts the
\* calls the client has made
Call(pc, n, email, phoneNumber, contacts, primaryContact, toUpdate, demoted, inserted, response) ==
    [pc |-> pc, n |-> n, email |-> email, phoneNumber |-> phoneNumber,
     contacts |-> contacts, primaryContact |-> primaryContact,
     contactsToUpdate |-> toUpdate, demoted |-> demoted,
     inserted |-> inserted, resp |-> response]

IdleCall == Call("idle", 0, Null, Null, <<>>, NoContact, {}, {}, Null, NoResponse)

\* the call has returned: its locals are gone, what it did is kept
Returned(c, response) ==
    [c EXCEPT !.pc = "done", !.contacts = <<>>, !.primaryContact = NoContact,
              !.contactsToUpdate = {}, !.resp = response]

\* where the call goes after `Determine primary contact`
AfterAssign(contacts, email, phoneNumber) ==
    IF hasNewInfo(contacts, email, phoneNumber) THEN "insert" ELSE "others"

\* const contacts = await this.findContactsByEmailOrPhone(...)
FindContacts(p, email, phoneNumber) ==
    /\ calls[p].pc \in {"idle", "done"}
    /\ calls[p].n < MaxCallsEach
    /\ ~(email = Null /\ phoneNumber = Null)
    /\ \E contacts \in findContactsByEmailOrPhone(store, email, phoneNumber) :
          LET primaryContact == IF contacts = <<>> THEN NoContact
                                ELSE determinePrimaryContact(contacts)
              pc == IF contacts = <<>> THEN "create"
                    ELSE IF primaryContact.linkPrecedence # contacts[1].linkPrecedence
                         THEN "promote"
                         ELSE AfterAssign(contacts, email, phoneNumber)
          IN  calls' = [calls EXCEPT ![p] =
                  Call(pc, calls[p].n + 1, email, phoneNumber, contacts,
                       primaryContact, {}, {}, Null, NoResponse)]
    /\ UNCHANGED <<store, now, req, resp, pre, repeated, args>>

\* const savedContact = await this.saveContact(newContact)  (no contacts found)
CreatePrimary(p) ==
    LET c == calls[p]
        s1 == saveContact(store, create(c.email, c.phoneNumber, Null, "primary"), now)
        savedContact == s1[Len(s1)]
    IN  /\ c.pc = "create"
        /\ Len(s1) <= MaxConcContacts
        /\ store' = s1
        /\ now' = now + 1
        /\ calls' = [calls EXCEPT ![p] =
               Returned(c, consolidateContacts(<<savedContact>>, savedContact))]
        /\ UNCHANGED <<req, resp, pre, repeated, args>>

\* await this.saveContact(primaryContact)
Promote(p) ==
    LET c == calls[p]
    IN  /\ c.pc = "promote"
        /\ store' = saveContact(store, c.primaryContact, now)
        /\ calls' = [calls EXCEPT ![p].pc =
               AfterAssign(c.contacts, c.email, c.phoneNumber)]
        /\ UNCHANGED <<now, req, resp, pre, repeated, args>>

\* const savedContact = await this.saveContact(newContact); contacts.push(...)
InsertSecondary(p) ==
    LET c == calls[p]
        s2 == saveContact(store, create(c.email, c.phoneNumber,
                                        c.primaryContact.id, "secondary"), now)
    IN  /\ c.pc = "insert"
        /\ Len(s2) <= MaxConcContacts
        /\ store' = s2
        /\ now' = now + 1
        /\ calls' = [calls EXCEPT ![p].pc = "others",
                                  ![p].contacts = Append(c.contacts, s2[Len(s2)]),
                                  ![p].inserted = Len(s2)]
        /\ UNCHANGED <<req, resp, pre, repeated, args>>

\* const otherPrimaryContacts = await this.findOtherPrimaryContacts(...)
\* and the computation of contactsToUpdate
FindOtherPrimaries(p) ==
    LET c == calls[p]
        otherPrimaryContacts ==
            findOtherPrimaryContacts(store, c.email, c.phoneNumber, c.primaryContact.id)
        contactsToUpdate ==
            IF otherPrimaryContacts # {}
            THEN reassignPrimaryContacts(otherPrimaryContacts, Earliest(c.contacts))
            ELSE {}
    IN  /\ c.pc = "others"
        /\ calls' = [calls EXCEPT
               ![p].pc = IF contactsToUpdate # {} THEN "merge" ELSE "related",
               ![p].contactsToUpdate = contactsToUpdate]
        /\ UNCHANGED <<store, now, req, resp, pre, repeated, args>>

\* one save of Promise.all(contactsToUpdate.map(...)): the saves are
\* independent statements and reach the table one by one, in any order
SaveDemoted(p) ==
    LET c == calls[p]
    IN  /\ c.pc = "merge"
        /\ \E contact \in c.contactsToUpdate :
              /\ store' = saveContact(store, contact, now)
              /\ calls' = [calls EXCEPT
                     ![p].pc = IF c.contactsToUpdate = {contact}
                               THEN "related" ELSE "merge",
                     ![p].contactsToUpdate = c.contactsToUpdate \ {contact},
                     ![p].demoted = c.demoted \cup {contact.id}]
        /\ UNCHANGED <<now, req, resp, pre, repeated, args>>

\* const allContacts = await this.findAllRelatedContacts(primaryContact.id)
\* return this.consolidateContacts(allContacts, primaryContact)
FindRelated(p) ==
    LET c == calls[p]
    IN  /\ c.pc = "related"
        /\ \E allContacts \in findAllRelatedContacts(store, c.primaryContact.id) :
              calls' = [calls EXCEPT ![p] =
                  Returned(c, consolidateContacts(allContacts, c.primaryContact))]
        /\ UNCHANGED <<store, now, req, resp, pre, repeated, args>>

InitConc ==
    /\ store = <<>>
    /\ now = 1
    /\ req = NoRequest
    /\ resp = NoResponse
    /\ pre = <<>>
    /\ repeated = FALSE
    /\ args = NoArgs
    /\ calls = [p \in Procs |-> IdleCall]

NextConc ==
    \E p \in Procs :
        \/ \E r \in IdentifyRequestDto : FindContacts(p, r.email, r.phoneNumber)
        \/ CreatePrimary(p)
        \/ Promote(p)
        \/ InsertSecondary(p)
        \/ FindOtherPrimaries(p)
        \/ SaveDemoted(p)
        \/ FindRelated(p)

SpecConc == InitConc /\ [][NextConc]_vars

\* the call of p has written a demotion of its merge and has not returned
Merging(p) == calls[p].pc \in {"merge", "related"} /\ calls[p].demoted # {}

\* C12: when every client's first call, carrying the same request, has
\* returned on a table that was empty before them, the table holds exactly one
\* primary and all the responses carry the same primaryContatctId.
C12_ConcurrentSameRequestOnePrimary ==
    (/\ \A p \in Procs : calls[p].pc = "done" /\ calls[p].n = 1
     /\ \A p, q \in Procs :
           calls[p].email = calls[q].email
           /\ calls[p].phoneNumber = calls[q].phoneNumber)
    => /\ Cardinality({i \in Ids(store) : IsPrimary(store[i])}) = 1
       /\ \A p, q \in Procs :
             calls[p].resp.primaryContatctId = calls[q].resp.primaryContatctId

\* C13: between the first demotion a call writes and its return, the table
\* never shows a contact linked to a primary that this merge has demoted, nor
\* two live primaries with the same email or the same phone number.
C13_NoIntermediateMergeState ==
    \A p \in Procs :
        Merging(p) =>
            /\ \A b \in calls[p].demoted :
                  \A i \in Ids(store) : store[i].linkedId # b
            /\ \A a, b \in Ids(store) :
                  (/\ a # b
                   /\ IsPrimary(store[a]) /\ store[a].deletedAt = Null
                   /\ IsPrimary(store[b]) /\ store[b].deletedAt = Null)
                  => /\ ~(store[a].email # Null /\ store[a].email = store[b].email)
                     /\ ~(store[a].phoneNumber # Null
                          /\ store[a].phoneNumber = store[b].phoneNumber)

\* C18: a call that has demotions to write has not inserted its secondary
\* yet, and when a call that inserted a secondary and demoted primaries has
\* returned, that secondary is linked to the only primary of its cluster.
C18_DemotionsBeforeInsert ==
    \A p \in Procs :
        /\ calls[p].contactsToUpdate # {} => calls[p].inserted = Null
        /\ (calls[p].pc = "done" /\ calls[p].inserted # Null /\ calls[p].demoted # {})
           => LET k == store[calls[p].inserted].linkedId
              IN  /\ k \in Ids(store)
                  /\ IsPrimary(store[k])
                  /\ \A i \in Cluster(store, k) : IsPrimary(store[i]) => i = k

====
